---------------------------- MODULE Spec2Model ----------------------------
(***************************************************************************)
(* Model of the polar-plant EC dashboard (src/main.py): the Unicode-safe   *)
(* file lookup, the two cached loaders, the load gate and the three tabs   *)
(* of one script run, and the process-wide cache across reruns.            *)
(*                                                                         *)
(* Conventions.  A text is the sequence of its Unicode code points.  The   *)
(* four school identifiers are written in Latin letters ("Songdo",         *)
(* "Haneul", "Ara", "Dongsan"; "ALL" is the sidebar's first option), and   *)
(* CodePoints gives the Hangul text each stands for.  A DataFrame is the   *)
(* sequence of its rows, a row a record whose fields are the columns.  A   *)
(* dict is the sequence of its <<key, value>> items in insertion order.    *)
(* Numbers are integers: EC in units of 1.0, fresh weight in 0.1 g.        *)
(***************************************************************************)
EXTENDS Integers, Sequences, FiniteSets, TLC

VARIABLES
    directory,      \* DATA_DIR: the entries in iteration order
    fsChanges,      \* how many times the directory was changed from outside
    SCHOOL_EC,      \* the module-level dict of line 36
    envCache,       \* st.cache_data entry of load_environment_data
    growthCache,    \* st.cache_data entry of load_growth_data
    envLoads,       \* executions of load_environment_data's body in this process
    growthLoads,    \* executions of load_growth_data's body in this process
    pc,             \* position of the current script run
    errors,         \* st.error messages shown by the current run
    env_data,       \* line 97
    growth_data,    \* line 98
    school_option,  \* line 107
    tab1,           \* what tab 1 rendered
    tab2,           \* what tab 2 rendered
    growth_all,     \* line 228
    ec_weight,      \* line 231
    best_ec,        \* line 232
    tab3,           \* what else tab 3 rendered
    fault,          \* the exception that ended the current run, if any
    target,         \* resolver harness: the name looked up
    found           \* resolver harness: what find_file_by_name returned

vars == <<directory, fsChanges, SCHOOL_EC, envCache, growthCache, envLoads,
          growthLoads, pc, errors, env_data, growth_data, school_option,
          tab1, tab2, growth_all, ec_weight, best_ec, tab3, fault,
          target, found>>

-----------------------------------------------------------------------------
(* Bounds of the model *)

MaxEntries == 3
MaxFsChanges == 1
MaxSheets == 2

-----------------------------------------------------------------------------
(* Unicode normalization, restricted to what changes these texts: the      *)
(* canonical (de)composition of Hangul syllables (Unicode 3.12).           *)

SBase == 44032
LBase == 4352
VBase == 4449
TBase == 4519
LCount == 19
VCount == 21
TCount == 28

NCount == VCount * TCount
SCount == LCount * NCount

IsSyllable(c) == c >= SBase /\ c < SBase + SCount
IsL(c) == c >= LBase /\ c < LBase + LCount
IsV(c) == c >= VBase /\ c < VBase + VCount
IsT(c) == c > TBase /\ c < TBase + TCount
IsLV(c) == IsSyllable(c) /\ (c - SBase) % TCount = 0

DecomposeChar(c) ==
    IF IsSyllable(c)
    THEN LET si == c - SBase
             l == LBase + (si \div NCount)
             v == VBase + ((si % NCount) \div TCount)
             t == TBase + (si % TCount)
         IN IF t = TBase THEN <<l, v>> ELSE <<l, v, t>>
    ELSE <<c>>

RECURSIVE Decompose(_)
Decompose(text) ==
    IF text = <<>> THEN <<>>
    ELSE DecomposeChar(Head(text)) \o Decompose(Tail(text))

RECURSIVE ComposeInto(_, _)
ComposeInto(done, rest) ==
    IF rest = <<>> THEN done
    ELSE LET c == Head(rest)
             last == IF done = <<>> THEN 0 ELSE done[Len(done)]
             front == IF done = <<>> THEN <<>> ELSE SubSeq(done, 1, Len(done) - 1)
         IN IF IsL(last) /\ IsV(c)
            THEN ComposeInto(Append(front,
                     SBase + ((last - LBase) * VCount + (c - VBase)) * TCount),
                     Tail(rest))
            ELSE IF IsLV(last) /\ IsT(c)
            THEN ComposeInto(Append(front, last + (c - TBase)), Tail(rest))
            ELSE ComposeInto(Append(done, c), Tail(rest))

NFD(text) == Decompose(text)
NFC(text) == ComposeInto(<<>>, Decompose(text))

\* A resolver that compares the raw names (no normalization).
normalize_raw(text) == text

normalize(text) == NFC(text)

-----------------------------------------------------------------------------
(* The file names the program builds, and the names found on disk *)

SCHOOLS == <<"Songdo", "Haneul", "Ara", "Dongsan">>
SchoolSet == {SCHOOLS[i] : i \in 1..Len(SCHOOLS)}

CodePoints(school) ==
    CASE school = "Songdo"  -> <<49569, 46020, 44256>>
      [] school = "Haneul"  -> <<54616, 45720, 44256>>
      [] school = "Ara"     -> <<50500, 46972, 44256>>
      [] school = "Dongsan" -> <<46041, 49328, 44256>>

EnvSuffix == <<95, 54872, 44221, 45936, 51060, 53552, 46, 99, 115, 118>>
EnvFileName(school) == CodePoints(school) \o EnvSuffix

GrowthFileName ==
    <<52, 44060, 44368, 95, 49373, 50977, 44208, 44284, 45936, 51060, 53552,
      46, 120, 108, 115, 120>>

\* the duplicated extension some copies of the data carry (".csv.csv")
DupExt(name) == name \o <<46, 99, 115, 118>>

None == [none |-> TRUE]

\* the loop of lines 58-61 over directory.iterdir()
RECURSIVE FirstMatch(_, _)
FirstMatch(entries, target_nfc) ==
    IF entries = <<>> THEN None
    ELSE LET file == Head(entries)
         IN IF normalize(file.name) = target_nfc THEN file
            ELSE FirstMatch(Tail(entries), target_nfc)

find_file_by_name(entries, target_name) ==
    LET target_nfc == normalize(target_name)
    IN FirstMatch(entries, target_nfc)

-----------------------------------------------------------------------------
(* DataFrames and dicts *)

\* the float NaN in an integer-valued column (all data are non-negative)
NaN == -1

\* a mean is the ratio num/den; the mean of nothing is NaN, written 0/0
Ratio(n, d) == [num |-> n, den |-> d]
RatioLess(a, b) == a.num * b.den < b.num * a.den

RECURSIVE Sum(_)
Sum(xs) == IF xs = <<>> THEN 0 ELSE Head(xs) + Sum(Tail(xs))

Column(df, col) == [i \in 1..Len(df) |-> df[i][col]]
Mean(xs) == Ratio(Sum(xs), Len(xs))

\* df[col] = value
WithColumn(row, col, value) ==
    [c \in DOMAIN row \cup {col} |-> IF c = col THEN value ELSE row[c]]
SetColumn(df, col, value) == [i \in 1..Len(df) |-> WithColumn(df[i], col, value)]

DictKeys(d) == [i \in 1..Len(d) |-> d[i][1]]
DictValues(d) == [i \in 1..Len(d) |-> d[i][2]]
KeySet(d) == {d[i][1] : i \in 1..Len(d)}
HasKey(d, k) == k \in KeySet(d)
DictItem(d, k) == d[CHOOSE i \in 1..Len(d) : d[i][1] = k][2]
DictGet(d, k, default) == IF HasKey(d, k) THEN DictItem(d, k) ELSE default

\* pd.concat: a new frame holding the rows of the frames, in order
RECURSIVE concat(_)
concat(frames) ==
    IF frames = <<>> THEN <<>> ELSE Head(frames) \o concat(Tail(frames))

-----------------------------------------------------------------------------
(* The files that may lie in DATA_DIR *)

SchoolIndex(school) == CHOOSE i \in 1..Len(SCHOOLS) : SCHOOLS[i] = school

EnvRow(t, temp, hum, ec) ==
    [time |-> t, temperature |-> temp, humidity |-> hum, ph |-> 6, ec |-> ec]

\* the environment table a school's file holds; the copy stored under the
\* decomposed name holds other measurements
EnvBody(school, form) ==
    LET i == SchoolIndex(school)
    IN IF form = "NFC"
       THEN <<EnvRow(1, 20 + i, 50, i), EnvRow(2, 23 + i, 55, i + 1)>>
       ELSE <<EnvRow(1, 10 + i, 40, i)>>

EnvFile(school, form) ==
    [name |-> IF form = "NFC" THEN NFC(EnvFileName(school))
              ELSE NFD(EnvFileName(school)),
     body |-> EnvBody(school, form)]

GrowthRow(id, weight) ==
    [plant_id |-> id, fresh_weight |-> weight,
     leaf_count |-> 3 + id, shoot_length |-> 2 * weight + id]

\* the rows of a sheet that lists plants of the given fresh weights
RowsOf(weights) == [i \in 1..Len(weights) |-> GrowthRow(i, weights[i])]

Sheet(name, weights) == [sheet |-> name, rows |-> RowsOf(weights)]

GrowthNameNFC == NFC(GrowthFileName)
GrowthNameNFD == NFD(GrowthFileName)

GrowthFile(form, sheets) ==
    [name |-> IF form = "NFC" THEN GrowthNameNFC ELSE GrowthNameNFD,
     body |-> sheets]

\* a workbook of two schools, and one whose first sheet kept a default name
WorkbookA == GrowthFile("NFC", <<Sheet("Songdo", <<52, 40>>), Sheet("Haneul", <<98>>)>>)
WorkbookB == GrowthFile("NFD", <<Sheet("Sheet1", <<71>>), Sheet("Ara", <<71, 40>>)>>)
\* and one that holds nothing but a sheet with a default name
WorkbookC == GrowthFile("NFC", <<Sheet("Sheet1", <<71>>)>>)

Pool ==
    <<EnvFile("Songdo", "NFC"), EnvFile("Songdo", "NFD"),
      EnvFile("Haneul", "NFC"), EnvFile("Haneul", "NFD"),
      EnvFile("Ara", "NFC"), EnvFile("Ara", "NFD"),
      EnvFile("Dongsan", "NFC"), EnvFile("Dongsan", "NFD"),
      WorkbookA, WorkbookB, WorkbookC>>

\* the files that come and go while the server runs
ChangingPool ==
    <<EnvFile("Songdo", "NFC"), EnvFile("Songdo", "NFD"), EnvFile("Haneul", "NFC"),
      WorkbookA, WorkbookB>>

\* a directory holds no two entries of the same name (code point for code point)
DistinctNames(entries) ==
    \A i, j \in 1..Len(entries) : entries[i].name = entries[j].name => i = j

RECURSIVE Ascending(_)
Ascending(S) ==
    IF S = {} THEN <<>>
    ELSE LET m == CHOOSE x \in S : \A y \in S : x <= y
         IN <<m>> \o Ascending(S \ {m})

Reverse(s) == [i \in 1..Len(s) |-> s[Len(s) + 1 - i]]

\* the listings of at most MaxEntries files of a pool, in the pool's order
\* or in the opposite order
Listings(pool) ==
    LET picks == {S \in SUBSET (1..Len(pool)) : Cardinality(S) <= MaxEntries}
        listed(S) == [i \in 1..Cardinality(S) |-> pool[Ascending(S)[i]]]
    IN {d \in {listed(S) : S \in picks} \cup {Reverse(listed(S)) : S \in picks} :
           DistinctNames(d)}

RemoveAt(s, i) == SubSeq(s, 1, i - 1) \o SubSeq(s, i + 1, Len(s))

-----------------------------------------------------------------------------
(* The loaders *)

ErrEnv(school) == <<"env file not found", school>>
ErrGrowth == <<"growth workbook not found">>

Loaded(value, msgs) == [cached |-> TRUE, value |-> value, msgs |-> msgs]
NotCached == [cached |-> FALSE, value |-> <<>>, msgs |-> <<>>]

\* pd.read_csv: the table the file holds
read_csv(file) == file.body

\* the loop of lines 69-76 from school number i on; acc is <<env_data, errors>>
RECURSIVE LoadEnvFrom(_, _, _)
LoadEnvFrom(entries, i, acc) ==
    IF i > Len(SCHOOLS) THEN acc
    ELSE LET school == SCHOOLS[i]
             file == find_file_by_name(entries, EnvFileName(school))
         IN IF file = None
            THEN LoadEnvFrom(entries, i + 1,
                     <<acc[1], Append(acc[2], ErrEnv(school))>>)
            ELSE LoadEnvFrom(entries, i + 1,
                     <<Append(acc[1],
                          <<school, SetColumn(read_csv(file), "school", school)>>),
                       acc[2]>>)

\* the same loop leaving at the first missing file (break for continue)
RECURSIVE LoadEnvUntilMissing(_, _, _)
LoadEnvUntilMissing(entries, i, acc) ==
    IF i > Len(SCHOOLS) THEN acc
    ELSE LET school == SCHOOLS[i]
             file == find_file_by_name(entries, EnvFileName(school))
         IN IF file = None
            THEN <<acc[1], Append(acc[2], ErrEnv(school))>>
            ELSE LoadEnvUntilMissing(entries, i + 1,
                     <<Append(acc[1],
                          <<school, SetColumn(read_csv(file), "school", school)>>),
                       acc[2]>>)

load_environment_data_break(entries) ==
    LET r == LoadEnvUntilMissing(entries, 1, <<<<>>, <<>>>>)
    IN Loaded(r[1], r[2])

load_environment_data(entries) ==
    LET r == LoadEnvFrom(entries, 1, <<<<>>, <<>>>>)
    IN Loaded(r[1], r[2])

\* the sheets of the workbook, each read and tagged with its sheet name
ReadSheets(xls) ==
    [i \in 1..Len(xls) |-> <<xls[i].sheet, SetColumn(xls[i].rows, "school", xls[i].sheet)>>]

\* the sheets tagged with the first sheet's name
ReadSheetsOneTag(xls) ==
    [i \in 1..Len(xls) |-> <<xls[i].sheet, SetColumn(xls[i].rows, "school", xls[1].sheet)>>]

load_growth_data_one_tag(entries) ==
    LET file == find_file_by_name(entries, GrowthFileName)
    IN IF file = None THEN Loaded(<<>>, <<ErrGrowth>>)
       ELSE Loaded(ReadSheetsOneTag(file.body), <<>>)

load_growth_data(entries) ==
    LET file == find_file_by_name(entries, GrowthFileName)
    IN IF file = None THEN Loaded(<<>>, <<ErrGrowth>>)
       ELSE Loaded(ReadSheets(file.body), <<>>)

\* st.cache_data: a stored entry answers every later call of the process
CacheNeverHit(cache) == FALSE

CacheHit(cache) == cache.cached

-----------------------------------------------------------------------------
(* The EC mapping and the aggregations of the three tabs *)

SchoolEcTable ==
    [school \in SchoolSet |->
        CASE school = "Songdo"  -> 1
          [] school = "Haneul"  -> 2
          [] school = "Ara"     -> 4
          [] school = "Dongsan" -> 8]

SCHOOL_COLOR ==
    [school \in SchoolSet |->
        CASE school = "Songdo"  -> "#1f77b4"
          [] school = "Haneul"  -> "#2ca02c"
          [] school = "Ara"     -> "#ff7f0e"
          [] school = "Dongsan" -> "#d62728"]

SidebarOptions == <<"ALL">> \o SCHOOLS

\* Series.map(dict) with a default concentration for a key the dict lacks
map_default(mapping, key) ==
    IF key \in DOMAIN mapping THEN mapping[key] ELSE 1

\* Series.map(dict): the dict's value, NaN for a key the dict lacks
map(mapping, key) ==
    IF key \in DOMAIN mapping THEN mapping[key] ELSE NaN

\* lines 228-229
GrowthAll(growth, mapping) ==
    LET all == concat(DictValues(growth))
    IN [i \in 1..Len(all) |-> WithColumn(all[i], "EC", map(mapping, all[i].school))]

\* the keys of groupby("EC"): ascending, NaN dropped
GroupKeys(df) == Ascending({df[i].EC : i \in 1..Len(df)} \ {NaN})
Group(df, ec) == SelectSeq(df, LAMBDA r : r.EC = ec)

\* groupby("EC")[col].mean().reset_index()
groupby_mean(df, col) ==
    LET keys == GroupKeys(df)
    IN [k \in 1..Len(keys) |->
           [EC |-> keys[k], value |-> Mean(Column(Group(df, keys[k]), col))]]

\* groupby("EC")[col].count()
groupby_count(df, col) ==
    LET keys == GroupKeys(df)
    IN [k \in 1..Len(keys) |-> [EC |-> keys[k], value |-> Len(Group(df, keys[k]))]]

\* the scan of idxmax from row i on, best being the row kept so far
RECURSIVE ScanMax(_, _, _)
ScanMax(table, i, best) ==
    IF i > Len(table) THEN best
    ELSE IF RatioLess(table[best].value, table[i].value)
         THEN ScanMax(table, i + 1, i)
         ELSE ScanMax(table, i + 1, best)

\* a scan that keeps the later of two equal rows
RECURSIVE ScanMaxLast(_, _, _)
ScanMaxLast(table, i, best) ==
    IF i > Len(table) THEN best
    ELSE IF ~RatioLess(table[i].value, table[best].value)
         THEN ScanMaxLast(table, i + 1, i)
         ELSE ScanMaxLast(table, i + 1, best)

idxmax_last(table) == ScanMaxLast(table, 2, 1)

\* Series.idxmax of a non-empty table: the first row holding the maximum
idxmax(table) == ScanMax(table, 2, 1)

\* lines 133-144
SummaryRows(growth, mapping) ==
    [i \in 1..Len(SCHOOLS) |->
        [school |-> SCHOOLS[i],
         ec_target |-> mapping[SCHOOLS[i]],
         count |-> Len(DictGet(growth, SCHOOLS[i], <<>>)),
         color |-> SCHOOL_COLOR[SCHOOLS[i]]]]

\* lines 161-171
AvgRows(env, mapping) ==
    [i \in 1..Len(env) |->
        [school |-> env[i][1],
         temperature |-> Mean(Column(env[i][2], "temperature")),
         humidity |-> Mean(Column(env[i][2], "humidity")),
         ph |-> Mean(Column(env[i][2], "ph")),
         ec |-> Mean(Column(env[i][2], "ec")),
         target_ec |-> mapping[env[i][1]]]]

\* lines 193-202
TimeSeries(df, hline) ==
    [time |-> Column(df, "time"), temperature |-> Column(df, "temperature"),
     humidity |-> Column(df, "humidity"), ec |-> Column(df, "ec"),
     hline |-> hline]

\* the EC join writing its column into the loaded frames
sources_after_join_inplace(growth, mapping) ==
    [i \in 1..Len(growth) |->
        <<growth[i][1],
          [j \in 1..Len(growth[i][2]) |->
              WithColumn(growth[i][2][j], "EC", map(mapping, growth[i][2][j].school))]>>]

\* the loaded frames after lines 228-229: concat copied their rows, the
\* new column went to the copy
sources_after_join(growth, mapping) == growth

\* line 100 with "and" for "or"
GateStopsIfBothEmpty(env, growth) == env = <<>> /\ growth = <<>>

\* line 100: not env_data or not growth_data
GateStops(env, growth) == env = <<>> \/ growth = <<>>

-----------------------------------------------------------------------------
(* The states *)

Nothing == [none |-> TRUE]

procVars == <<directory, fsChanges, envCache, growthCache, envLoads, growthLoads>>
loadVars == <<errors, env_data, growth_data>>
tabVars == <<tab1, tab2, growth_all, ec_weight, best_ec, tab3>>
harnessVars == <<target, found>>

NoSession ==
    /\ errors = <<>>
    /\ env_data = <<>>
    /\ growth_data = <<>>
    /\ school_option = ""
    /\ tab1 = Nothing
    /\ tab2 = Nothing
    /\ growth_all = <<>>
    /\ ec_weight = <<>>
    /\ best_ec = Nothing
    /\ tab3 = Nothing
    /\ fault = ""

NoProcess ==
    /\ fsChanges = 0
    /\ SCHOOL_EC = SchoolEcTable
    /\ envCache = NotCached
    /\ growthCache = NotCached
    /\ envLoads = 0
    /\ growthLoads = 0

Init ==
    /\ directory \in Listings(Pool)
    /\ NoProcess
    /\ pc = "idle"
    /\ NoSession
    /\ target = <<>>
    /\ found = None

-----------------------------------------------------------------------------
(* One script run: lines 13-281 from top to bottom *)

\* what tab 1 shows (lines 133-153)
Tab1Out(env, growth, mapping) ==
    LET rows == SummaryRows(growth, mapping)
        all_env == concat(DictValues(env))
    IN [summary_df |-> rows,
        total_plants |-> Sum(Column(rows, "count")),
        temperature |-> Mean(Column(all_env, "temperature")),
        humidity |-> Mean(Column(all_env, "humidity"))]

\* what tab 2 shows when no lookup fails (lines 161-220)
Tab2Out(env, option, mapping) ==
    [avg_df |-> AvgRows(env, mapping),
     fig_ts |-> IF option = "ALL" THEN Nothing
                ELSE TimeSeries(DictItem(env, option), mapping[option]),
     combined_env |-> concat(DictValues(env)),
     download |-> TRUE]

\* what tab 2 has shown when line 193 raises
Tab2Partial(env, mapping) ==
    [avg_df |-> AvgRows(env, mapping), fig_ts |-> Nothing,
     combined_env |-> <<>>, download |-> FALSE]

\* what tab 3 shows after the best-EC metric (lines 236-281)
Tab3Out(all) ==
    [fresh_weight |-> groupby_mean(all, "fresh_weight"),
     leaf_count |-> groupby_mean(all, "leaf_count"),
     shoot_length |-> groupby_mean(all, "shoot_length"),
     plant_count |-> groupby_count(all, "plant_id"),
     download |-> all]

ResetSession ==
    /\ errors' = <<>>
    /\ env_data' = <<>>
    /\ growth_data' = <<>>
    /\ school_option' = ""
    /\ tab1' = Nothing
    /\ tab2' = Nothing
    /\ growth_all' = <<>>
    /\ ec_weight' = <<>>
    /\ best_ec' = Nothing
    /\ tab3' = Nothing
    /\ fault' = ""

\* a user interaction (or the first visit) runs the script from its top
Run ==
    /\ pc \in {"idle", "done", "stopped", "fault"}
    /\ pc' = "load_env"
    /\ SCHOOL_EC' = SchoolEcTable
    /\ ResetSession
    /\ UNCHANGED <<procVars, harnessVars>>

\* line 97
LoadEnvironment ==
    /\ pc = "load_env"
    /\ LET hit == CacheHit(envCache)
           entry == IF hit THEN envCache ELSE load_environment_data(directory)
       IN /\ envCache' = entry
          /\ envLoads' = IF hit THEN envLoads ELSE envLoads + 1
          /\ env_data' = entry.value
          /\ errors' = errors \o entry.msgs
    /\ pc' = "load_growth"
    /\ UNCHANGED <<directory, fsChanges, SCHOOL_EC, growthCache, growthLoads,
                   growth_data, school_option, tabVars, fault, harnessVars>>

\* line 98
LoadGrowth ==
    /\ pc = "load_growth"
    /\ LET hit == CacheHit(growthCache)
           entry == IF hit THEN growthCache ELSE load_growth_data(directory)
       IN /\ growthCache' = entry
          /\ growthLoads' = IF hit THEN growthLoads ELSE growthLoads + 1
          /\ growth_data' = entry.value
          /\ errors' = errors \o entry.msgs
    /\ pc' = "gate"
    /\ UNCHANGED <<directory, fsChanges, SCHOOL_EC, envCache, envLoads,
                   env_data, school_option, tabVars, fault, harnessVars>>

\* lines 100-101
Gate ==
    /\ pc = "gate"
    /\ pc' = IF GateStops(env_data, growth_data) THEN "stopped" ELSE "sidebar"
    /\ UNCHANGED <<procVars, SCHOOL_EC, loadVars, school_option, tabVars, fault,
                   harnessVars>>

\* lines 106-110
Sidebar ==
    /\ pc = "sidebar"
    /\ \E i \in 1..Len(SidebarOptions) : school_option' = SidebarOptions[i]
    /\ pc' = "tab1"
    /\ UNCHANGED <<procVars, SCHOOL_EC, loadVars, tabVars, fault, harnessVars>>

\* lines 125-153
Tab1 ==
    /\ pc = "tab1"
    /\ tab1' = Tab1Out(env_data, growth_data, SCHOOL_EC)
    /\ pc' = "tab2"
    /\ UNCHANGED <<procVars, SCHOOL_EC, loadVars, school_option, tab2,
                   growth_all, ec_weight, best_ec, tab3, fault, harnessVars>>

\* lines 158-220; env_data[school_option] raises KeyError for a school
\* that was not loaded
Tab2 ==
    /\ pc = "tab2"
    /\ IF school_option # "ALL" /\ ~HasKey(env_data, school_option)
       THEN /\ tab2' = Tab2Partial(env_data, SCHOOL_EC)
            /\ fault' = "KeyError"
            /\ pc' = "fault"
       ELSE /\ tab2' = Tab2Out(env_data, school_option, SCHOOL_EC)
            /\ fault' = fault
            /\ pc' = "tab3"
    /\ UNCHANGED <<procVars, SCHOOL_EC, loadVars, school_option, tab1,
                   growth_all, ec_weight, best_ec, tab3, harnessVars>>

\* lines 225-281; idxmax raises ValueError on a table without rows
Tab3 ==
    /\ pc = "tab3"
    /\ LET all == GrowthAll(growth_data, SCHOOL_EC)
           means == groupby_mean(all, "fresh_weight")
       IN /\ growth_all' = all
          /\ growth_data' = sources_after_join(growth_data, SCHOOL_EC)
          /\ ec_weight' = means
          /\ IF Len(means) = 0
             THEN /\ best_ec' = best_ec
                  /\ tab3' = tab3
                  /\ fault' = "ValueError"
                  /\ pc' = "fault"
             ELSE /\ best_ec' = means[idxmax(means)]
                  /\ tab3' = Tab3Out(all)
                  /\ fault' = fault
                  /\ pc' = "done"
    /\ UNCHANGED <<procVars, SCHOOL_EC, errors, env_data, school_option, tab1,
                   tab2, harnessVars>>

\* the server process is stopped and started again: the caches are gone
Restart ==
    /\ pc' = "idle"
    /\ SCHOOL_EC' = SchoolEcTable
    /\ envCache' = NotCached
    /\ growthCache' = NotCached
    /\ envLoads' = 0
    /\ growthLoads' = 0
    /\ ResetSession
    /\ UNCHANGED <<directory, fsChanges, harnessVars>>

\* between two runs somebody removes a file from the data directory
DeleteFile ==
    /\ pc \in {"idle", "done", "stopped", "fault"}
    /\ fsChanges < MaxFsChanges
    /\ \E i \in 1..Len(directory) : directory' = RemoveAt(directory, i)
    /\ fsChanges' = fsChanges + 1
    /\ UNCHANGED <<SCHOOL_EC, envCache, growthCache, envLoads, growthLoads, pc,
                   loadVars, school_option, tabVars, fault, harnessVars>>

\* between two runs somebody puts a file into the data directory
AddFile ==
    /\ pc \in {"idle", "done", "stopped", "fault"}
    /\ fsChanges < MaxFsChanges
    /\ Len(directory) < MaxEntries
    /\ \E i \in 1..Len(ChangingPool) :
          /\ DistinctNames(Append(directory, ChangingPool[i]))
          /\ directory' = Append(directory, ChangingPool[i])
    /\ fsChanges' = fsChanges + 1
    /\ UNCHANGED <<SCHOOL_EC, envCache, growthCache, envLoads, growthLoads, pc,
                   loadVars, school_option, tabVars, fault, harnessVars>>

Next ==
    \/ Run
    \/ LoadEnvironment
    \/ LoadGrowth
    \/ Gate
    \/ Sidebar
    \/ Tab1
    \/ Tab2
    \/ Tab3

Spec == Init /\ [][Next]_vars

-----------------------------------------------------------------------------
(* The server over time: reruns, restarts, and a data directory that       *)
(* changes between the runs                                                *)

InitChanging ==
    /\ directory \in Listings(ChangingPool)
    /\ NoProcess
    /\ pc = "idle"
    /\ NoSession
    /\ target = <<>>
    /\ found = None

NextChanging ==
    \/ Run
    \/ LoadEnvironment
    \/ LoadGrowth
    \/ Gate
    \/ Sidebar
    \/ Tab1
    \/ Tab2
    \/ Tab3
    \/ Restart
    \/ DeleteFile
    \/ AddFile

SpecChanging == InitChanging /\ [][NextChanging]_vars

-----------------------------------------------------------------------------
(* The resolver alone: one lookup of a name in a directory *)

ResolvePool ==
    <<EnvFile("Songdo", "NFC"), EnvFile("Songdo", "NFD"),
      [name |-> DupExt(EnvFileName("Songdo")), body |-> EnvBody("Songdo", "NFC")],
      EnvFile("Haneul", "NFC"), EnvFile("Haneul", "NFD"),
      WorkbookA, WorkbookB>>

ResolveTargets ==
    {EnvFileName("Songdo"), NFD(EnvFileName("Songdo")), EnvFileName("Haneul"),
     EnvFileName("Ara"), DupExt(EnvFileName("Songdo")), GrowthFileName,
     NFD(GrowthFileName)}

InitResolve ==
    /\ directory \in Listings(ResolvePool)
    /\ target \in ResolveTargets
    /\ found = None
    /\ NoProcess
    /\ pc = "resolve"
    /\ NoSession

\* lines 56-61, called once
Resolve ==
    /\ pc = "resolve"
    /\ found' = find_file_by_name(directory, target)
    /\ pc' = "resolved"
    /\ UNCHANGED <<procVars, SCHOOL_EC, loadVars, school_option, tabVars, fault,
                   target>>

NextResolve == Resolve

SpecResolve == InitResolve /\ [][NextResolve]_vars

-----------------------------------------------------------------------------
(* Tab 3 alone, on the growth data of any small workbook *)

SheetNames == SchoolSet \cup {"Sheet1"}
WeightLists == {<<>>, <<40>>, <<98>>, <<40, 98>>, <<98, 98>>}

\* the workbooks of at most MaxSheets sheets
SmallWorkbooks ==
    {xls \in UNION {[1..n -> [sheet : SheetNames, weights : WeightLists]] :
                        n \in 1..MaxSheets} :
        \A i, j \in 1..Len(xls) : xls[i].sheet = xls[j].sheet => i = j}

\* a workbook whose per-EC means are 5.2, 9.8, 7.1 and 4.0 g
ExampleWorkbook ==
    <<[sheet |-> "Songdo", weights |-> <<52>>], [sheet |-> "Haneul", weights |-> <<98>>],
      [sheet |-> "Ara", weights |-> <<71>>], [sheet |-> "Dongsan", weights |-> <<40>>]>>

SheetsOf(xls) == [i \in 1..Len(xls) |-> Sheet(xls[i].sheet, xls[i].weights)]

Tab3EnvFile == EnvFile("Haneul", "NFC")
Tab3EnvLoaded == load_environment_data(<<Tab3EnvFile>>)

\* the state of a first run that reached tab 3 with "ALL" selected
InitTab3 ==
    \E xls \in SmallWorkbooks \cup {ExampleWorkbook} :
        /\ directory = <<Tab3EnvFile, GrowthFile("NFC", SheetsOf(xls))>>
        /\ fsChanges = 0
        /\ SCHOOL_EC = SchoolEcTable
        /\ envCache = Tab3EnvLoaded
        /\ growthCache = load_growth_data(directory)
        /\ envLoads = 1
        /\ growthLoads = 1
        /\ pc = "tab3"
        /\ errors = envCache.msgs \o growthCache.msgs
        /\ env_data = envCache.value
        /\ growth_data = growthCache.value
        /\ school_option = "ALL"
        /\ tab1 = Tab1Out(env_data, growth_data, SCHOOL_EC)
        /\ tab2 = Tab2Out(env_data, school_option, SCHOOL_EC)
        /\ growth_all = <<>>
        /\ ec_weight = <<>>
        /\ best_ec = Nothing
        /\ tab3 = Nothing
        /\ fault = ""
        /\ target = <<>>
        /\ found = None

NextTab3 == Tab3

SpecTab3 == InitTab3 /\ [][NextTab3]_vars

-----------------------------------------------------------------------------
(* Properties *)

AfterEnvLoad ==
    {"load_growth", "gate", "stopped", "sidebar", "tab1", "tab2", "tab3", "done", "fault"}
AfterGrowthLoad == AfterEnvLoad \ {"load_growth"}
AfterGate == {"sidebar", "tab1", "tab2", "tab3", "done", "fault"}

\* the positions of the entries whose composed name is the composed target
Matches(entries, name) ==
    LET composed == NFC(name)
    IN {i \in 1..Len(entries) : NFC(entries[i].name) = composed}
Least(S) == CHOOSE x \in S : \A y \in S : x <= y

\* how often x occurs in the sequence s
Count(s, x) == Cardinality({i \in 1..Len(s) : s[i] = x})

(* C1: find_file_by_name returns an entry iff some entry's NFC name equals *)
(* the NFC target; the entry returned is the first such entry in iteration *)
(* order; with no such entry it returns None.                              *)
C1_ResolverContract ==
    pc = "resolved" =>
        LET M == Matches(directory, target)
        IN /\ (found # None) <=> (M # {})
           /\ M # {} => found = directory[Least(M)]
           /\ M = {} => found = None

\* an entry stored decomposed is found by the composed target, ahead of a
\* second entry of the same composed name
C1_Witness ==
    /\ pc = "resolved"
    /\ target = EnvFileName("Songdo")
    /\ found # None
    /\ found.name = NFD(target)
    /\ found.name # target
    /\ Cardinality(Matches(directory, target)) = 2

Resolvable(school) == Matches(directory, EnvFileName(school)) # {}

(* C2: the mapping load_environment_data returns (line 97, first call or   *)
(* cached) has exactly the schools whose file resolves as its keys, each   *)
(* once and in the fixed school order; every missing school has exactly    *)
(* one error recorded; a missing file does not keep a later school from    *)
(* being loaded.                                                           *)
C2_EnvPartialLoad ==
    pc = "load_growth" =>
        LET resolvable == {school \in SchoolSet : Resolvable(school)}
        IN /\ KeySet(env_data) = resolvable
           /\ Len(env_data) = Cardinality(KeySet(env_data))
           /\ \A i, j \in 1..Len(env_data) :
                 i < j => SchoolIndex(env_data[i][1]) < SchoolIndex(env_data[j][1])
           /\ \A school \in SchoolSet :
                 Count(errors, ErrEnv(school)) = IF school \in resolvable THEN 0 ELSE 1

\* the first school's file is missing and the three others are loaded
C2_Witness ==
    /\ pc = "load_growth"
    /\ ~Resolvable("Songdo")
    /\ DictKeys(env_data) = <<"Haneul", "Ara", "Dongsan">>
    /\ errors = <<ErrEnv("Songdo")>>

(* C3: with no entry resolving to the workbook name, load_growth_data      *)
(* (line 98, first call or cached) returns the empty mapping and records   *)
(* one error; with one, it returns one entry per sheet of the first such   *)
(* workbook, keyed by the sheet name, holding the sheet's rows, each       *)
(* tagged with that sheet name.                                            *)
C3_GrowthLoad ==
    pc = "gate" =>
        LET M == Matches(directory, GrowthFileName)
        IN /\ M = {} => growth_data = <<>> /\ Count(errors, ErrGrowth) = 1
           /\ M # {} =>
                LET xls == directory[Least(M)].body
                IN /\ Len(growth_data) = Len(xls)
                   /\ Count(errors, ErrGrowth) = 0
                   /\ \A i \in 1..Len(xls) :
                         /\ growth_data[i][1] = xls[i].sheet
                         /\ Len(growth_data[i][2]) = Len(xls[i].rows)
                         /\ \A j \in 1..Len(xls[i].rows) :
                               /\ growth_data[i][2][j].school = xls[i].sheet
                               /\ \A c \in DOMAIN xls[i].rows[j] :
                                     growth_data[i][2][j][c] = xls[i].rows[j][c]

\* environment files are there, the workbook is not
C3_Witness ==
    /\ pc = "gate"
    /\ env_data # <<>>
    /\ Matches(directory, GrowthFileName) = {}
    /\ growth_data = <<>>
    /\ ErrGrowth = errors[Len(errors)]

(* C4: a run whose environment mapping or growth mapping came back empty   *)
(* ends at the gate: it never reaches the sidebar or a tab, and nothing of *)
(* the sidebar, the tabs or the downloads exists in it.                    *)
C4_GateHalts ==
    (pc \in AfterGrowthLoad /\ (env_data = <<>> \/ growth_data = <<>>)) =>
        /\ pc \in {"gate", "stopped"}
        /\ school_option = ""
        /\ tab1 = Nothing
        /\ tab2 = Nothing
        /\ growth_all = <<>>
        /\ ec_weight = <<>>
        /\ best_ec = Nothing
        /\ tab3 = Nothing

\* stopped with environment data loaded and no growth data
C4_Witness ==
    /\ pc = "stopped"
    /\ env_data # <<>>
    /\ growth_data = <<>>

\* the records held in memory
EnvRecords == UNION {{env_data[i][2][j] : j \in 1..Len(env_data[i][2])} : i \in 1..Len(env_data)}
GrowthRecords ==
    UNION {{growth_data[i][2][j] : j \in 1..Len(growth_data[i][2])} : i \in 1..Len(growth_data)}

(* C5: after loading, every environment record and every growth record    *)
(* carries a school that is a key of SCHOOL_EC.                            *)
C5_SchoolsAreMapped ==
    pc \in AfterGrowthLoad =>
        /\ \A r \in EnvRecords : r.school \in DOMAIN SCHOOL_EC
        /\ \A r \in GrowthRecords : r.school \in DOMAIN SCHOOL_EC


\* the EC groups of the loaded growth records: the concentration of every
\* mapped school that has at least one record, with the weights recorded
GroupWeights(ec) ==
    LET rows == concat([i \in 1..Len(growth_data) |->
                    IF /\ growth_data[i][1] \in SchoolSet
                       /\ SchoolEcTable[growth_data[i][1]] = ec
                    THEN growth_data[i][2] ELSE <<>>])
    IN Column(rows, "fresh_weight")
GroupECs == {ec \in {1, 2, 4, 8} : GroupWeights(ec) # <<>>}
GroupMean(ec) == Ratio(Sum(GroupWeights(ec)), Len(GroupWeights(ec)))
SameRatio(a, b) == a.num * b.den = b.num * a.den

(* C6: the best-EC selection returns an EC group of the loaded growth      *)
(* records whose mean fresh weight no other group exceeds, and of the      *)
(* groups sharing that maximum the one of the lowest EC (the first row of  *)
(* the per-EC table); for the means 5.2, 9.8, 7.1, 4.0 at EC 1, 2, 4, 8    *)
(* it returns 2.  The selection returns iff there is a group at all.       *)
C6_BestEc ==
    /\ pc \in {"done", "fault"} => (pc = "done" <=> GroupECs # {})
    /\ pc = "done" =>
        /\ best_ec.EC \in GroupECs
        /\ SameRatio(best_ec.value, GroupMean(best_ec.EC))
        /\ \A ec \in GroupECs : ~RatioLess(GroupMean(best_ec.EC), GroupMean(ec))
        /\ \A ec \in GroupECs :
              ec < best_ec.EC => RatioLess(GroupMean(ec), GroupMean(best_ec.EC))
        /\ \A k \in 1..Len(ec_weight) - 1 : ec_weight[k].EC < ec_weight[k + 1].EC
        /\ ( /\ GroupECs = {1, 2, 4, 8}
             /\ GroupMean(1) = Ratio(52, 1) /\ GroupMean(2) = Ratio(98, 1)
             /\ GroupMean(4) = Ratio(71, 1) /\ GroupMean(8) = Ratio(40, 1) )
           => best_ec.EC = 2

\* two groups share the highest mean; the sheet of the higher EC comes
\* first in the workbook, the lower EC is returned
C6_Witness ==
    /\ pc = "done"
    /\ DictKeys(growth_data) = <<"Ara", "Songdo">>
    /\ GroupMean(4) = Ratio(98, 1)
    /\ GroupMean(1) = Ratio(196, 2)
    /\ best_ec.EC = 1

(* C7: a cache entry, once stored, answers every later run of the process  *)
(* with the same contents: each loader's body runs at most once per        *)
(* process, the datasets of a run are the cached ones, and an entry        *)
(* changes only by being dropped when the process restarts.                *)
C7_LoadOnce ==
    /\ [](/\ envLoads <= 1
          /\ growthLoads <= 1
          /\ pc \in AfterEnvLoad => envCache.cached /\ env_data = envCache.value
          /\ pc \in AfterGrowthLoad =>
                growthCache.cached /\ growth_data = growthCache.value)
    /\ [][/\ envCache.cached =>
                \/ envCache' = envCache /\ envLoads' = envLoads
                \/ envCache' = NotCached /\ growthCache' = NotCached /\ pc' = "idle"
          /\ growthCache.cached =>
                \/ growthCache' = growthCache /\ growthLoads' = growthLoads
                \/ envCache' = NotCached /\ growthCache' = NotCached /\ pc' = "idle"
         ]_vars

\* a run after the directory changed still works on the datasets of the
\* first load, which the directory would no longer yield
C7_Witness ==
    /\ pc = "tab1"
    /\ fsChanges > 0
    /\ envLoads = 1
    /\ growthLoads = 1
    /\ env_data # load_environment_data(directory).value

(* C8: through a whole rendering pass, for any sidebar selection, env_data *)
(* and growth_data hold exactly what the loaders returned (the value the   *)
(* cache entry keeps), with the columns of the files and the school        *)
(* column; the EC column exists in growth_all only.                        *)
C8_SourcesUntouched ==
    pc \in AfterGate =>
        /\ env_data = envCache.value
        /\ growth_data = growthCache.value
        /\ \A r \in EnvRecords : DOMAIN r = {"time", "temperature", "humidity", "ph", "ec", "school"}
        /\ \A r \in GrowthRecords :
              DOMAIN r = {"plant_id", "fresh_weight", "leaf_count", "shoot_length", "school"}
        /\ \A i \in 1..Len(growth_all) : "EC" \in DOMAIN growth_all[i]

\* a pass with a school selected has run to its end
C8_Witness ==
    /\ pc = "done"
    /\ school_option = "Haneul"
    /\ tab2.download
    /\ Len(tab3.download) > 0
    /\ \A i \in 1..Len(growth_all) : "EC" \in DOMAIN growth_all[i]
    /\ \A r \in GrowthRecords : "EC" \notin DOMAIN r

(* C9: SCHOOL_EC is at all times the mapping of the four schools to 1, 2,  *)
(* 4 and 8; every row of growth_all has as its EC the mapping's value for  *)
(* its school, and NaN, which is no concentration, when its school is not  *)
(* a key.                                                                  *)
C9_EcMapping ==
    /\ DOMAIN SCHOOL_EC = {"Songdo", "Haneul", "Ara", "Dongsan"}
    /\ SCHOOL_EC["Songdo"] = 1
    /\ SCHOOL_EC["Haneul"] = 2
    /\ SCHOOL_EC["Ara"] = 4
    /\ SCHOOL_EC["Dongsan"] = 8
    /\ pc \in {"done", "fault"} /\ fault # "KeyError" =>
          /\ Len(growth_all) = Cardinality(GrowthRecords)
          /\ \A i \in 1..Len(growth_all) :
                LET r == growth_all[i]
                IN IF r.school \in DOMAIN SCHOOL_EC
                   THEN r.EC = SCHOOL_EC[r.school]
                   ELSE r.EC = NaN /\ \A k \in DOMAIN SCHOOL_EC : SCHOOL_EC[k] # r.EC

\* growth_all holds a row of an unmapped sheet and a row of a school
C9_Witness ==
    /\ pc = "done"
    /\ \E i \in 1..Len(growth_all) :
          growth_all[i].school = "Sheet1" /\ growth_all[i].EC = NaN
    /\ \E i \in 1..Len(growth_all) :
          growth_all[i].school = "Ara" /\ growth_all[i].EC = 4

(* C10: once the gate has passed, the run ends without an exception for    *)
(* every sidebar option, and the selected school's environment records are *)
(* found (stated for the workbooks whose sheets are all named after        *)
(* schools, where nothing but the selection decides).                      *)
C10_PassNeverFaults ==
    (\A r \in GrowthRecords : r.school \in DOMAIN SCHOOL_EC) =>
        /\ pc # "fault"
        /\ fault = ""
        /\ (pc \in {"tab3", "done"} /\ school_option # "ALL") =>
              HasKey(env_data, school_option)

=============================================================================
